---- MODULE Spec2Model ----
(***************************************************************************)
(* Candle pipeline of Live_crypto_charts: the timeframe resolver, the      *)
(* candle fetcher, the indicator annotator and the poll loop of            *)
(* Livechart.py, and the request handler of app.py.                        *)
(*                                                                         *)
(* Python strings that the code parses are sequences of one-character      *)
(* strings.  A call either returns a value or raises:                      *)
(*   [kind |-> "return", value |-> v]   or   [kind |-> "raise", exc |-> e] *)
(***************************************************************************)
EXTENDS Integers, Sequences, FiniteSets, TLC

VARIABLES
    frontend,   \* which entry point runs: "resolver", "live" (Livechart.py), "web" (app.py)
    cfg,        \* the parsed config.ini: the keys present and their values
    window,     \* the fetch window computed last: seconds, start and end, or NoWindow
    pc,         \* position of LiveChart: the constructor, the poll loop, or after it
    df,         \* LiveChart.df, the stored frame
    requested,  \* whether the transport (client.request) has been called so far
    batch,      \* the transport outcome that the last fetch received
    fetched,    \* the outcome of the last fetch_candles / get_chart_data call
    handed,     \* the frame handed to mpf.plot in the current tick, or Nothing
    failure,    \* where the current tick raised an Exception, or "none"
    signal      \* the position at which KeyboardInterrupt was delivered, or "none"

vars == <<frontend, cfg, window, pc, df, requested, batch, fetched, handed,
          failure, signal>>

----------------------------------------------------------------------------
(* Bounds of the model.                                                    *)

\* longest timeframe string the resolver is run on
MaxLen == 3
\* most rows in one payload of the transport
MaxRows == 2
\* largest candle_limit
MaxLimit == 2

----------------------------------------------------------------------------
(* Python values.                                                          *)

None == [kind |-> "None"]
NaN == [kind |-> "NaN"]
Nothing == [kind |-> "nothing"]

Return(v) == [kind |-> "return", value |-> v]
Raise(e) == [kind |-> "raise", exc |-> e]

Digits == <<"0", "1", "2", "3", "4", "5", "6", "7", "8", "9">>

IsDigit(c) == \E i \in 1..10 : Digits[i] = c

DigitValue(c) == (CHOOSE i \in 1..10 : Digits[i] = c) - 1

AllDigits(s) == Len(s) > 0 /\ \A i \in 1..Len(s) : IsDigit(s[i])

RECURSIVE DigitsValue(_)
DigitsValue(s) ==
    IF Len(s) = 0 THEN 0
    ELSE 10 * DigitsValue(SubSeq(s, 1, Len(s) - 1)) + DigitValue(s[Len(s)])

\* int(s) for s over digits and signs: an optional sign, then one or more digits.
int(s) ==
    IF Len(s) > 0 /\ s[1] \in {"-", "+"}
    THEN IF AllDigits(Tail(s))
         THEN Return(IF s[1] = "-" THEN 0 - DigitsValue(Tail(s)) ELSE DigitsValue(Tail(s)))
         ELSE Raise("ValueError")
    ELSE IF AllDigits(s) THEN Return(DigitsValue(s)) ELSE Raise("ValueError")

----------------------------------------------------------------------------
(* 4.1 Timeframe resolver.                                                 *)

get_timeframe_seconds_hours_as_minutes(timeframe) ==
    IF Len(timeframe) = 0 THEN Raise("IndexError")
    ELSE LET unit == timeframe[Len(timeframe)]
             value == int(SubSeq(timeframe, 1, Len(timeframe) - 1))
         IN  IF value.kind = "raise" THEN value
             ELSE IF unit = "m" THEN Return(value.value * 60)
             ELSE IF unit = "h" THEN Return(value.value * 60)
             ELSE IF unit = "d" THEN Return(value.value * 86400)
             ELSE Return(60)

get_timeframe_seconds_default_zero(timeframe) ==
    IF Len(timeframe) = 0 THEN Raise("IndexError")
    ELSE LET unit == timeframe[Len(timeframe)]
             value == int(SubSeq(timeframe, 1, Len(timeframe) - 1))
         IN  IF value.kind = "raise" THEN value
             ELSE IF unit = "m" THEN Return(value.value * 60)
             ELSE IF unit = "h" THEN Return(value.value * 3600)
             ELSE IF unit = "d" THEN Return(value.value * 86400)
             ELSE Return(0)

\* unit = timeframe[-1]; value = int(timeframe[:-1]); the unit decides the factor
get_timeframe_seconds(timeframe) ==
    IF Len(timeframe) = 0 THEN Raise("IndexError")
    ELSE LET unit == timeframe[Len(timeframe)]
             value == int(SubSeq(timeframe, 1, Len(timeframe) - 1))
         IN  IF value.kind = "raise" THEN value
             ELSE IF unit = "m" THEN Return(value.value * 60)
             ELSE IF unit = "h" THEN Return(value.value * 3600)
             ELSE IF unit = "d" THEN Return(value.value * 86400)
             ELSE Return(60)

NoWindow == [kind |-> "nowindow"]

\* end_time = now; start_time = end_time - candle_limit * get_timeframe_seconds()
FetchWindow(timeframe, candle_limit, end_time) ==
    LET secs == get_timeframe_seconds(timeframe)
    IN  IF secs.kind = "raise" THEN secs
        ELSE Return([seconds |-> secs.value,
                     start |-> end_time - candle_limit * secs.value,
                     end |-> end_time])

----------------------------------------------------------------------------
(* The transport (DeltaRestClient.request) and what it may answer.         *)

Required == {"time", "open", "high", "low", "close", "volume"}
OHLCV == {"open", "high", "low", "close", "volume"}

\* epoch seconds of the candles
Times == {1, 2}

\* the exchange sends prices as strings; "x" stands for one that is no number
RawValues == {<<"7">>, <<"x">>}

RawRow(t, s) == [time |-> t, open |-> s, high |-> s, low |-> s, close |-> s, volume |-> s]

RawRows == {RawRow(t, s) : t \in Times, s \in RawValues}

Without(row, f) == [k \in (DOMAIN row) \ {f} |-> row[k]]

SeqsUpTo(S, n) == UNION {[1..k -> S] : k \in 0..n}

\* the 'result' lists: any batch of complete rows, and a row that lacks one field
Payloads ==
    SeqsUpTo(RawRows, MaxRows) \cup {<<Without(RawRow(1, <<"7">>), f)>> : f \in Required}

\* response.json(): null, a dict without 'result', or a dict with 'result'
Bodies == {None, [error |-> "e"]} \cup {[result |-> rows] : rows \in Payloads}

TransportOutcomes ==
    {[kind |-> "raise"]}
        \cup {[kind |-> "response", ok |-> TRUE, data |-> d] : d \in Bodies}
        \cup {[kind |-> "response", ok |-> FALSE, data |-> d] :
                d \in {None, [error |-> "e"], [result |-> <<RawRow(1, <<"7">>)>>]}}

----------------------------------------------------------------------------
(* pandas frames: an index and named columns of equal length.              *)

\* pd.DataFrame(): no rows, no columns
EmptyFrame == [index |-> <<>>, cols |-> [c \in {} |-> <<>>]]

Rows(frame) == Len(frame.index)

\* pd.DataFrame(candles): the columns are the keys of the rows, the index is 0..n-1
DataFrame(candles) ==
    [index |-> [i \in 1..Len(candles) |-> [pos |-> i - 1]],
     cols |-> [c \in UNION {DOMAIN candles[i] : i \in 1..Len(candles)} |->
                 [i \in 1..Len(candles) |-> candles[i][c]]]]

\* pd.to_datetime(t, unit='s')
to_datetime(t) == [epoch_s |-> t]

Float(v) == [kind |-> "float", value |-> v]

\* pd.to_numeric(s, errors='coerce')
to_numeric(s) == IF AllDigits(s) THEN Float(DigitsValue(s)) ELSE NaN

\* timestamp index from 'time', the five columns kept and coerced
Reshape(frame) ==
    [index |-> [i \in 1..Rows(frame) |-> to_datetime(frame.cols["time"][i])],
     cols |-> [c \in OHLCV |-> [i \in 1..Rows(frame) |-> to_numeric(frame.cols[c][i])]]]

IsMonotonic(frame) ==
    \A i \in 1..Rows(frame) : \A j \in 1..Rows(frame) :
        i < j => frame.index[i].epoch_s <= frame.index[j].epoch_s

RowOrders(n) == {p \in [1..n -> 1..n] : \A i \in 1..n : \A j \in 1..n : p[i] = p[j] => i = j}

Take(frame, p) ==
    [index |-> [i \in 1..Rows(frame) |-> frame.index[p[i]]],
     cols |-> [c \in DOMAIN frame.cols |-> [i \in 1..Rows(frame) |-> frame.cols[c][p[i]]]]]

sort_index_missing(frame) == {frame}

\* df.sort_index(inplace=True): a monotonic index is left as it is; otherwise the
\* rows are reordered by the default quicksort, which is not stable: every
\* ascending order of the rows is a possible result
sort_index(frame) ==
    IF IsMonotonic(frame) THEN {frame}
    ELSE {f \in {Take(frame, p) : p \in RowOrders(Rows(frame))} : IsMonotonic(f)}

IsFrame(v) == "index" \in DOMAIN v

----------------------------------------------------------------------------
(* 4.3 Indicator annotator.  pandas_ta computes the columns; the model     *)
(* keeps their names, their length and where they are absent, and stands   *)
(* in a simple value for the Supertrend numbers.                           *)

Series(values) == [kind |-> "series", values |-> values]

RECURSIVE Total(_, _, _)
Total(col, from, to) ==
    IF from > to THEN 0 ELSE col[from].value + Total(col, from + 1, to)

Mean(col, from, to) ==
    IF \E i \in from..to : col[i] = NaN THEN NaN
    ELSE Float(Total(col, from, to) \div (to - from + 1))

\* df.ta.sma(length=n): None when there is no 'close' or fewer than n rows
ta_sma(frame, length) ==
    IF "close" \notin DOMAIN frame.cols \/ Rows(frame) < length THEN None
    ELSE Series([i \in 1..Rows(frame) |->
                    IF i < length THEN NaN
                    ELSE Mean(frame.cols["close"], i - length + 1, i)])

\* append=True, col_names=(name,): a None result appends nothing
AppendColumn(frame, name, result) ==
    IF result = None THEN frame
    ELSE [index |-> frame.index,
          cols |-> [c \in (DOMAIN frame.cols) \cup {name} |->
                      IF c = name THEN result.values ELSE frame.cols[c]]]

\* the library names its columns after the parameters it was given
SupertrendName(prefix, length, multiplier) == <<prefix, length, multiplier>>

\* df.ta.supertrend(length, multiplier): None when fewer than length rows
ta_supertrend(frame, length, multiplier) ==
    IF Rows(frame) < length THEN None
    ELSE [kind |-> "frame",
          cols |-> [name \in {SupertrendName(q, length, multiplier) :
                                 q \in {"SUPERT", "SUPERTd", "SUPERTl", "SUPERTs"}} |->
                      [i \in 1..Rows(frame) |->
                          IF i < length THEN NaN
                          ELSE IF name[1] = "SUPERTd" THEN Float(1)
                          ELSE frame.cols["close"][i]]]]

Returned(frame) == [kind |-> "return", value |-> frame, frame |-> frame]
Raised(e, frame) == [kind |-> "raise", exc |-> e, frame |-> frame]

\* calculate_indicators(df): df is changed in place, so a raise leaves the
\* columns appended before it (field frame)
calculate_indicators(frame, c) ==
    LET sma20 == IF c.show_sma THEN AppendColumn(frame, "SMA20", ta_sma(frame, 20)) ELSE frame
        sma50 == IF c.show_sma THEN AppendColumn(sma20, "SMA50", ta_sma(sma20, 50)) ELSE sma20
        key == SupertrendName("SUPERT", c.atr_period, c.atr_multiplier)
        keyd == SupertrendName("SUPERTd", c.atr_period, c.atr_multiplier)
    IN  IF ~c.show_supertrend THEN Returned(sma50)
        ELSE IF ~({"high", "low", "close"} \subseteq DOMAIN sma50.cols)
             THEN Raised("KeyError", sma50)
        ELSE LET st == ta_supertrend(sma50, c.atr_period, c.atr_multiplier)
             IN  IF st = None THEN Raised("TypeError", sma50)
                 ELSE IF key \notin DOMAIN st.cols \/ keyd \notin DOMAIN st.cols
                      THEN Raised("KeyError", sma50)
                 ELSE Returned(AppendColumn(AppendColumn(sma50, "Supertrend", Series(st.cols[key])),
                                      "Supertrend_Direction", Series(st.cols[keyd])))

----------------------------------------------------------------------------
(* 4.2 Candle fetcher of Livechart.py.                                     *)

\* except Exception: prints str(e) and query_params, then returns None;
\* query_params is unbound when the try block raised before assigning it
fetch_handler(bound) ==
    IF bound THEN Return(None) ELSE Raise("UnboundLocalError")

\* fetch_candles up to the transport call: the window, then query_params
fetch_candles_window(c, now) ==
    LET w == FetchWindow(c.timeframe, c.candle_limit, now)
    IN  IF w.kind = "raise" THEN fetch_handler(FALSE) ELSE w

\* fetch_candles from the transport's answer on: every possible result
fetch_candles_response(outcome) ==
    IF outcome.kind = "raise" THEN {fetch_handler(TRUE)}
    ELSE IF ~outcome.ok THEN {Return(None)}
    ELSE IF outcome.data = None \/ "result" \notin DOMAIN outcome.data THEN {Return(None)}
    ELSE LET frame == DataFrame(outcome.data.result)
         IN  IF ~(Required \subseteq DOMAIN frame.cols) THEN {Return(None)}
             ELSE {Return(f) : f \in sort_index(Reshape(frame))}

----------------------------------------------------------------------------
(* Configuration (config.ini) and the two entry points.                    *)

FirstKeys == {"api.key", "api.secret", "trading.symbol", "trading.timeframe",
              "chart.candle_limit"}
IndicatorKeys == {"indicators.show_sma", "indicators.show_supertrend",
                  "indicators.atr_period", "indicators.atr_multiplier"}
ConfigKeys == FirstKeys \cup {"chart.update_interval"} \cup IndicatorKeys

\* datetime.now().timestamp()
Clock == {1000000000}

\* LiveChart.__init__ reads every key; a missing one raises there
LiveChart_init(c) ==
    IF ConfigKeys \subseteq c.present THEN Return(EmptyFrame) ELSE Raise("KeyError")

WebRaise(e, req) == [kind |-> "raise", exc |-> e, requested |-> req]
WebReturn(frame) == [kind |-> "return", value |-> frame, requested |-> TRUE]

\* get_chart_data, after the sort: the indicator keys are read, then the columns added
get_chart_data_indicators(frame, c) ==
    IF ~(IndicatorKeys \subseteq c.present) THEN WebRaise("KeyError", TRUE)
    ELSE LET a == calculate_indicators(frame, c)
         IN  IF a.kind = "raise" THEN WebRaise(a.exc, TRUE) ELSE WebReturn(a.value)

\* get_chart_data() of app.py: no status check and no handler, whatever fails raises
get_chart_data(c, outcome, now) ==
    IF ~(FirstKeys \subseteq c.present) THEN {WebRaise("KeyError", FALSE)}
    ELSE LET w == FetchWindow(c.timeframe, c.candle_limit, now)
         IN  IF w.kind = "raise" THEN {WebRaise(w.exc, FALSE)}
             ELSE IF outcome.kind = "raise" THEN {WebRaise("RequestException", TRUE)}
             ELSE IF outcome.data = None THEN {WebRaise("TypeError", TRUE)}
             ELSE IF "result" \notin DOMAIN outcome.data THEN {WebRaise("KeyError", TRUE)}
             ELSE LET frame == DataFrame(outcome.data.result)
                  IN  IF ~(Required \subseteq DOMAIN frame.cols)
                      THEN {WebRaise("KeyError", TRUE)}
                      ELSE {get_chart_data_indicators(f, c) :
                               f \in sort_index(Reshape(frame))}

----------------------------------------------------------------------------
(* 4.4 Poll loop of Livechart.py.                                          *)

StoreFetched_first_only(old, new) ==
    IF Rows(old) = 0 /\ IsFrame(new) THEN new ELSE old

\* update_chart: if new_data is not None: self.df = new_data
StoreFetched(old, new) == IF new # None THEN new ELSE old

\* update_chart after calculate_indicators: the overlays, then mpf.plot
Display(frame, c, plot_ok) ==
    IF c.show_sma /\ ~({"SMA20", "SMA50"} \subseteq DOMAIN frame.cols) THEN Raise("KeyError")
    ELSE IF c.show_supertrend /\ "Supertrend" \notin DOMAIN frame.cols THEN Raise("KeyError")
    ELSE IF ~(OHLCV \subseteq DOMAIN frame.cols) \/ ~plot_ok THEN Raise("PlotError")
    ELSE Return(frame)

fetch_catches_everything(exc) == TRUE

\* fetch_candles: except Exception (KeyboardInterrupt is no Exception)
fetch_catches(exc) == exc # "KeyboardInterrupt"

run_except_always_break(exc, at) == "stopped"

\* run: the try covers update_chart and the sleep; except KeyboardInterrupt breaks,
\* except Exception sleeps 5 seconds; what is raised in that handler escapes run()
run_except(exc, at) ==
    IF at = "backoff" THEN "escaped"
    ELSE IF exc = "KeyboardInterrupt" THEN "stopped"
    ELSE "backoff"

Running == {"tick", "transport", "annotate", "sleep", "backoff"}

----------------------------------------------------------------------------
(* Initial states.                                                         *)

Config(present, timeframe, candle_limit, show_sma, show_supertrend, atr_period) ==
    [present |-> present, timeframe |-> timeframe, candle_limit |-> candle_limit,
     show_sma |-> show_sma, show_supertrend |-> show_supertrend,
     atr_period |-> atr_period, atr_multiplier |-> 3]

\* characters of the timeframe strings the resolver is run on
TimeframeChars == {"0", "1", "5", "-", "m", "h", "d", "x"}
Timeframes == SeqsUpTo(TimeframeChars, MaxLen)

\* a complete config.ini, or one that lacks a single key
Configs ==
    {Config(ConfigKeys, tf, MaxLimit, a, b, n) :
        tf \in {<<"5", "m">>, <<"x", "m">>}, a \in BOOLEAN, b \in BOOLEAN, n \in {1, 2}}
    \cup {Config(ConfigKeys \ {k}, <<"5", "m">>, MaxLimit, TRUE, TRUE, 1) : k \in ConfigKeys}

Idle ==
    /\ window = NoWindow
    /\ df = EmptyFrame
    /\ requested = FALSE
    /\ batch = Nothing
    /\ fetched = Nothing
    /\ handed = Nothing
    /\ failure = "none"
    /\ signal = "none"

Init ==
    /\ frontend \in {"live", "web"}
    /\ cfg \in Configs
    /\ pc = IF frontend = "live" THEN "init" ELSE "serving"
    /\ Idle

InitResolver ==
    /\ frontend = "resolver"
    /\ cfg \in {Config(ConfigKeys, tf, n, FALSE, FALSE, 1) :
                  tf \in Timeframes, n \in 1..MaxLimit}
    /\ pc = "resolver"
    /\ Idle

----------------------------------------------------------------------------
(* Actions.                                                                *)

\* the window of one fetch, as fetch_candles and get_chart_data compute it
Resolve ==
    /\ frontend = "resolver"
    /\ window = NoWindow
    /\ \E now \in Clock : window' = FetchWindow(cfg.timeframe, cfg.candle_limit, now)
    /\ UNCHANGED <<frontend, cfg, pc, df, requested, batch, fetched, handed, failure, signal>>

\* chart = LiveChart('config.ini'); chart.run()
Construct ==
    /\ frontend = "live"
    /\ pc = "init"
    /\ LET made == LiveChart_init(cfg)
       IN  IF made.kind = "raise"
           THEN pc' = "aborted" /\ df' = df
           ELSE pc' = "tick" /\ df' = made.value
    /\ UNCHANGED <<frontend, cfg, window, requested, batch, fetched, handed, failure, signal>>

\* a tick begins: update_chart calls fetch_candles, which computes the window
\* and calls the transport
FetchStart ==
    /\ pc = "tick"
    /\ \E now \in Clock :
         LET w == fetch_candles_window(cfg, now)
         IN  IF w.kind = "raise"
             THEN /\ fetched' = w
                  /\ failure' = "fetch"
                  /\ pc' = run_except(w.exc, "tick")
                  /\ UNCHANGED <<window, requested>>
             ELSE /\ window' = w
                  /\ requested' = TRUE
                  /\ fetched' = Nothing
                  /\ failure' = failure
                  /\ pc' = "transport"
    /\ batch' = Nothing
    /\ handed' = Nothing
    /\ UNCHANGED <<frontend, cfg, df, signal>>

\* the transport answers; fetch_candles returns and update_chart stores the frame
FetchComplete ==
    /\ pc = "transport"
    /\ \E outcome \in TransportOutcomes : \E r \in fetch_candles_response(outcome) :
         /\ batch' = outcome
         /\ fetched' = r
         /\ IF r.kind = "raise"
            THEN /\ failure' = "fetch"
                 /\ pc' = run_except(r.exc, "transport")
                 /\ df' = df
            ELSE /\ failure' = failure
                 /\ pc' = "annotate"
                 /\ df' = StoreFetched(df, r.value)
    /\ UNCHANGED <<frontend, cfg, window, requested, handed, signal>>

\* the rest of update_chart: calculate_indicators, the overlays, mpf.plot
AnnotateAndPlot ==
    /\ pc = "annotate"
    /\ \E plot_ok \in BOOLEAN :
         LET a == calculate_indicators(df, cfg)
         IN  IF a.kind = "raise"
             THEN /\ df' = a.frame
                  /\ handed' = Nothing
                  /\ failure' = "annotate"
                  /\ pc' = run_except(a.exc, "annotate")
             ELSE LET shown == Display(a.value, cfg, plot_ok)
                  IN  /\ df' = a.value
                      /\ IF shown.kind = "raise"
                         THEN /\ handed' = Nothing
                              /\ failure' = "display"
                              /\ pc' = run_except(shown.exc, "annotate")
                         ELSE /\ handed' = shown.value
                              /\ failure' = failure
                              /\ pc' = "sleep"
    /\ batch' = Nothing
    /\ UNCHANGED <<frontend, cfg, window, requested, fetched, signal>>

\* time.sleep(self.update_interval) returns
Sleep ==
    /\ pc = "sleep"
    /\ pc' = "tick"
    /\ failure' = "none"
    /\ UNCHANGED <<frontend, cfg, window, df, requested, batch, fetched, handed, signal>>

\* time.sleep(5) in the except Exception handler returns
Backoff ==
    /\ pc = "backoff"
    /\ pc' = "tick"
    /\ failure' = "none"
    /\ UNCHANGED <<frontend, cfg, window, df, requested, batch, fetched, handed, signal>>

\* Ctrl-C: KeyboardInterrupt is raised wherever the loop is
KeyboardInterrupt ==
    /\ pc \in Running
    /\ signal' = pc
    /\ IF pc = "transport" /\ fetch_catches("KeyboardInterrupt")
       THEN /\ fetched' = fetch_handler(TRUE)
            /\ pc' = "annotate"
       ELSE /\ fetched' = fetched
            /\ pc' = run_except("KeyboardInterrupt", pc)
    /\ UNCHANGED <<frontend, cfg, window, df, requested, batch, handed, failure>>

\* GET /data: data() calls get_chart_data()
WebRequest ==
    /\ frontend = "web"
    /\ \E now \in Clock : \E outcome \in TransportOutcomes :
         \E r \in get_chart_data(cfg, outcome, now) :
            /\ fetched' = r
            /\ batch' = IF r.requested THEN outcome ELSE Nothing
            /\ requested' = (requested \/ r.requested)
    /\ UNCHANGED <<frontend, cfg, window, pc, df, handed, failure, signal>>

Next ==
    \/ Construct
    \/ FetchStart
    \/ FetchComplete
    \/ AnnotateAndPlot
    \/ Sleep
    \/ Backoff
    \/ KeyboardInterrupt
    \/ WebRequest

Spec == Init /\ [][Next]_vars

NextResolver == Resolve

SpecResolver == InitResolver /\ [][NextResolver]_vars

----------------------------------------------------------------------------
(* Properties of the timeframe resolver, under SpecResolver.               *)

\* str(n): the decimal form of an integer, written independently of int
RECURSIVE StrNat(_)
StrNat(n) == IF n < 10 THEN <<Digits[n + 1]>> ELSE StrNat(n \div 10) \o <<Digits[(n % 10) + 1]>>

str(n) == IF n < 0 THEN <<"-">> \o StrNat(0 - n) ELSE StrNat(n)

\* the integers whose decimal form fits in a prefix
Prefixes == (1 - 10 ^ (MaxLen - 2))..(10 ^ (MaxLen - 1) - 1)

\* the decimal form of each of them
Decimal == [n \in Prefixes |-> str(n)]

Unit(tf) == tf[Len(tf)]
Prefix(tf) == SubSeq(tf, 1, Len(tf) - 1)

\* C1: for a timeframe written as an integer followed by one unit character the
\* resolver returns the integer times 60 for m, times 3600 for h, times 86400
\* for d, and 60 for any other unit character, without raising.
C1_UnitFactors ==
    (window # NoWindow /\ Len(cfg.timeframe) > 0) =>
        \A n \in Prefixes :
            Prefix(cfg.timeframe) = Decimal[n] =>
                /\ window.kind = "return"
                /\ window.value.seconds =
                      CASE Unit(cfg.timeframe) = "m" -> n * 60
                        [] Unit(cfg.timeframe) = "h" -> n * 3600
                        [] Unit(cfg.timeframe) = "d" -> n * 86400
                        [] OTHER -> 60

C1_Witness ==
    /\ window # NoWindow
    /\ cfg.timeframe = <<"1", "5", "h">>
    /\ window.kind = "return"
    /\ window.value.seconds = 54000

\* C7 as stated: for every prefix that parses the resolver returns a positive
\* number of seconds, and start_time is strictly before end_time.
C7_AlwaysPositive ==
    (window # NoWindow /\ Len(cfg.timeframe) > 0
        /\ int(Prefix(cfg.timeframe)).kind = "return") =>
        /\ window.kind = "return"
        /\ window.value.seconds > 0
        /\ window.value.start < window.value.end

\* C7: the resolver's result has the sign of the prefix when the unit is m, h
\* or d, and is 60 for any other unit; start_time is before end_time exactly
\* when the result is positive: for a positive prefix, or another unit.
C7_PositiveForPositivePrefix ==
    (window # NoWindow /\ Len(cfg.timeframe) > 0
        /\ int(Prefix(cfg.timeframe)).kind = "return") =>
        LET n == int(Prefix(cfg.timeframe)).value
            known == Unit(cfg.timeframe) \in {"m", "h", "d"}
        IN  /\ window.kind = "return"
            /\ (n > 0 \/ ~known) =>
                  /\ window.value.seconds > 0
                  /\ window.value.start < window.value.end
            /\ (n = 0 /\ known) =>
                  /\ window.value.seconds = 0
                  /\ window.value.start = window.value.end
            /\ (n < 0 /\ known) =>
                  /\ window.value.seconds < 0
                  /\ window.value.start > window.value.end

C7_Witness ==
    /\ window # NoWindow
    /\ cfg.timeframe = <<"5", "m">>
    /\ cfg.candle_limit = MaxLimit
    /\ window.kind = "return"
    /\ window.value.seconds = 300
    /\ window.value.start = window.value.end - MaxLimit * 300

----------------------------------------------------------------------------
(* Properties of the fetcher, the annotator and the loop, under Spec.      *)

PrefixParses(tf) == Len(tf) > 0 /\ int(Prefix(tf)).kind = "return"

\* the transport's answer is one of the failures: it raised, the status is no
\* success, the body is empty or has no 'result', the payload is empty or
\* lacks a required field
FailedTransport(b) ==
    /\ b # Nothing
    /\ \/ b.kind = "raise"
       \/ ~b.ok
       \/ b.data = None
       \/ "result" \notin DOMAIN b.data
       \/ Len(b.data.result) = 0
       \/ \E i \in 1..Len(b.data.result) : ~(Required \subseteq DOMAIN b.data.result[i])

\* C2: a fetch that meets a failure (a timeframe whose prefix does not parse,
\* or a failed transport answer) returns None, in Livechart.py and in app.py;
\* it neither raises nor returns a series.
C2_FailureReturnsNone ==
    (fetched # Nothing /\ (~PrefixParses(cfg.timeframe) \/ FailedTransport(batch))) =>
        (fetched.kind = "return" /\ fetched.value = None)

FetchedFrame ==
    /\ batch # Nothing
    /\ fetched # Nothing
    /\ fetched.kind = "return"
    /\ IsFrame(fetched.value)

Stamp(frame, i) == frame.index[i].epoch_s

\* C3 as stated: the series a fetch returns is strictly ascending by timestamp,
\* so it holds one entry per distinct timestamp.
C3_StrictlyAscending ==
    FetchedFrame =>
        \A i \in 1..Rows(fetched.value) : \A j \in 1..Rows(fetched.value) :
            i < j => Stamp(fetched.value, i) < Stamp(fetched.value, j)

\* C3: the series a fetch returns is ascending by timestamp, not strictly: it
\* holds one entry per raw row, so a timestamp that k rows of the batch share
\* appears k times, and the order is strict exactly when no two rows share one.
C3_AscendingKeepsEveryRow ==
    FetchedFrame =>
        LET frame == fetched.value
            rows == batch.data.result
        IN  /\ \A i \in 1..Rows(frame) : \A j \in 1..Rows(frame) :
                  i < j => Stamp(frame, i) <= Stamp(frame, j)
            /\ Rows(frame) = Len(rows)
            /\ \A t \in Times :
                  Cardinality({i \in 1..Rows(frame) : Stamp(frame, i) = t})
                      = Cardinality({i \in 1..Len(rows) : rows[i].time = t})
            /\ (\A i \in 1..Rows(frame) : \A j \in 1..Rows(frame) :
                    i < j => Stamp(frame, i) < Stamp(frame, j))
                  <=> (\A i \in 1..Len(rows) : \A j \in 1..Len(rows) :
                          rows[i].time = rows[j].time => i = j)

\* a batch whose rows came newest first is returned oldest first
C3_Witness ==
    /\ FetchedFrame
    /\ Len(batch.data.result) = 2
    /\ batch.data.result[1].time = 2
    /\ batch.data.result[2].time = 1
    /\ Stamp(fetched.value, 1) = 1
    /\ Stamp(fetched.value, 2) = 2

\* C4: in the loop an Exception raised by a tick (by the fetch, the indicators
\* or the plot, on the first tick too) leads to the backoff wait and from
\* there to the next tick; the loop is left only by a KeyboardInterrupt.
C4_FailureNeverStopsLoop ==
    [][/\ (failure = "none" /\ failure' # "none") => pc' = "backoff"
       /\ (pc = "backoff" /\ signal' = signal) => pc' = "tick"
       /\ (pc \in Running /\ pc' \notin Running) => (signal = "none" /\ signal' = pc)]_vars

\* the first tick fetched nothing, the indicators raised on the empty frame
C4_Witness ==
    /\ pc = "backoff"
    /\ failure = "annotate"
    /\ Rows(df) = 0
    /\ fetched = Return(None)

\* C5: a KeyboardInterrupt delivered anywhere in the loop, the backoff wait
\* included, ends in Stopped through the loop's handler and never escapes run().
C5_InterruptStopsCleanly ==
    signal # "none" => pc = "stopped"

Added(frame) == (DOMAIN frame.cols) \ OHLCV

ExpectedColumns(c) ==
    (IF c.show_sma THEN {"SMA20", "SMA50"} ELSE {})
        \cup (IF c.show_supertrend THEN {"Supertrend", "Supertrend_Direction"} ELSE {})

\* C6: the columns that the annotator has added to a frame are exactly SMA20 and
\* SMA50 when show_sma is set, Supertrend and Supertrend_Direction when
\* show_supertrend is set, whatever the series; each is as long as the index.
C6_ColumnsFollowFlags ==
    /\ (frontend = "web" /\ fetched # Nothing /\ fetched.kind = "return") =>
          /\ Added(fetched.value) = ExpectedColumns(cfg)
          /\ \A c \in DOMAIN fetched.value.cols :
                Len(fetched.value.cols[c]) = Rows(fetched.value)
    /\ (frontend = "live" /\ (pc = "sleep" \/ (pc = "backoff" /\ failure = "display"))) =>
          /\ Added(df) = ExpectedColumns(cfg)
          /\ \A c \in DOMAIN df.cols : Len(df.cols[c]) = Rows(df)

Base(frame) == [index |-> frame.index, cols |-> [c \in OHLCV |-> frame.cols[c]]]

\* C8 as stated: what a tick hands to the plot is the series that the same
\* tick fetched; a tick whose fetch returned None hands over nothing.
C8_DisplayedIsThisTicksFetch ==
    handed # Nothing =>
        /\ fetched.kind = "return"
        /\ IsFrame(fetched.value)
        /\ Base(handed) = fetched.value

\* C8: what a tick hands to the plot is the stored series: a fetch that returns
\* a series replaces the stored series by it, a fetch that returns None leaves
\* it, so such a tick annotates and plots the series of an earlier tick again.
C8_DisplayedIsStored ==
    [][/\ (pc = "transport" /\ pc' = "annotate") =>
             (IF IsFrame(fetched'.value) THEN df' = fetched'.value ELSE df' = df)
       /\ (pc = "annotate" /\ handed' # Nothing) =>
             (handed' = df' /\ Base(df') = Base(df))]_vars

\* a tick whose fetch returned None has plotted the series kept from before
C8_Witness ==
    /\ handed # Nothing
    /\ fetched = Return(None)
    /\ pc = "sleep"

\* C9 as stated: a KeyboardInterrupt delivered during the transport call lets
\* the fetch complete, with a series or None, before the loop stops.
C9_FetchCompletes ==
    signal = "transport" => fetched # Nothing

\* C9: a KeyboardInterrupt delivered during the transport call ends the fetch
\* there: fetch_candles returns nothing, the stored series stays, and the loop
\* is Stopped in that tick.
C9_InterruptEndsFetch ==
    [][(pc = "transport" /\ signal' # signal) =>
          (pc' = "stopped" /\ fetched' = Nothing /\ df' = df /\ handed' = handed)]_vars

C9_Witness ==
    /\ signal = "transport"
    /\ pc = "stopped"
    /\ fetched = Nothing
    /\ requested

\* C10: with a required configuration key missing, no front end ever calls
\* the transport.
C10_NoRequestWithoutKey ==
    ~(ConfigKeys \subseteq cfg.present) => ~requested

====
